---- MODULE Spec2Model ----
(***************************************************************************)
(* Model of src/model/docker.ts (Docker.ensureContainerRemoval, Docker.run,*)
(* the Linux and Windows command builders, containerIdFilePath) and of the *)
(* platform list of src/model/action.ts.                                   *)
(*                                                                         *)
(* Text is a sequence of atoms.  An atom is a one-character string ("/",   *)
(* ".", "x", " ") where the code looks at single characters (path          *)
(* normalisation, trim) and a whole literal ("container_", "/ssh-agent")   *)
(* where the code only copies it.                                          *)
(***************************************************************************)
EXTENDS Integers, Sequences, FiniteSets, TLC

(* ---------------------------------------------------------------- bounds *)
MaxTmpLen == 2
MaxIdLen == 2
MaxCidLen == 2
MaxOps == 2

(* ------------------------------------------------------------------ text *)
RECURSIVE SeqsUpTo(_, _)
SeqsUpTo(S, n) ==
    IF n = 0 THEN {<<>>}
    ELSE LET shorter == SeqsUpTo(S, n - 1)
         IN  shorter \cup {Append(s, c) : s \in {t \in shorter : Len(t) = n - 1}, c \in S}

Last(s) == s[Len(s)]
Front(s) == SubSeq(s, 1, Len(s) - 1)

(* JavaScript's undefined, for an optional string parameter that is not set *)
Undefined == <<"\\undefined">>
(* JavaScript truthiness of an optional string: undefined and '' are falsy *)
Truthy(v) == v # Undefined /\ v # <<>>

(* ------------------------------------------------------- node:path (posix) *)
(* split on "/" : the segments of a path, empty segments included *)
RECURSIVE SplitFrom(_, _, _)
SplitFrom(p, i, cur) ==
    IF i > Len(p) THEN <<cur>>
    ELSE IF p[i] = "/" THEN <<cur>> \o SplitFrom(p, i + 1, <<>>)
    ELSE SplitFrom(p, i + 1, Append(cur, p[i]))

Segments(p) == SplitFrom(p, 1, <<>>)

DotDot == <<".", ".">>

(* normalizeString: drop empty and "." segments, resolve ".." against the
   segments kept so far; above the root ".." is kept only when allowed *)
RECURSIVE normalizeString(_, _, _, _)
normalizeString(segs, i, res, allowAboveRoot) ==
    IF i > Len(segs) THEN res
    ELSE LET s == segs[i]
         IN  IF s = <<>> \/ s = <<".">>
             THEN normalizeString(segs, i + 1, res, allowAboveRoot)
             ELSE IF s = DotDot
             THEN IF res # <<>> /\ Last(res) # DotDot
                  THEN normalizeString(segs, i + 1, Front(res), allowAboveRoot)
                  ELSE IF allowAboveRoot
                  THEN normalizeString(segs, i + 1, Append(res, s), allowAboveRoot)
                  ELSE normalizeString(segs, i + 1, res, allowAboveRoot)
             ELSE normalizeString(segs, i + 1, Append(res, s), allowAboveRoot)

RECURSIVE JoinSegments(_)
JoinSegments(segs) ==
    IF segs = <<>> THEN <<>>
    ELSE IF Len(segs) = 1 THEN segs[1]
    ELSE segs[1] \o <<"/">> \o JoinSegments(Tail(segs))

normalize(p) ==
    IF p = <<>> THEN <<".">>
    ELSE LET isAbsolute == p[1] = "/"
             trailingSeparator == Last(p) = "/"
             body == JoinSegments(normalizeString(Segments(p), 1, <<>>, ~isAbsolute))
         IN  IF body = <<>>
             THEN IF isAbsolute THEN <<"/">>
                  ELSE IF trailingSeparator THEN <<".", "/">> ELSE <<".">>
             ELSE (IF isAbsolute THEN <<"/">> ELSE <<>>) \o body
                  \o (IF trailingSeparator THEN <<"/">> ELSE <<>>)

(* path.join(a, b): empty arguments are skipped, the rest joined by "/" and
   normalised *)
pathJoin(a, b) ==
    LET joined == IF a = <<>> THEN b
                  ELSE IF b = <<>> THEN a
                  ELSE a \o <<"/">> \o b
    IN  IF joined = <<>> THEN <<".">> ELSE normalize(joined)

(* ------------------------------------------------------ containerIdFilePath *)
(* mutant: the run identifier is left out of the file name *)
containerIdFilePath_NoRunId(parameters) ==
    pathJoin(parameters.runnerTemporaryPath, <<"container_">>)

containerIdFilePath(parameters) ==
    pathJoin(parameters.runnerTemporaryPath, <<"container_">> \o parameters.githubAction)

(* ---------------------------------------------------------- command text *)
(* One fragment of the command template: an option with up to two values.
   A conditional fragment that is left out is the empty fragment. *)
Frag(opt, a, b) == [opt |-> opt, a |-> a, b |-> b]
NoFrag == Frag("", <<>>, <<>>)

(* ImageEnvironmentFactory.getEnvVarString: opaque text, inserted verbatim *)
getEnvVarString(parameters, additionalVariables) ==
    Frag("envVarString", additionalVariables, <<>>)

githubHomeOf(parameters) == pathJoin(parameters.runnerTempPath, <<"_github_home">>)
githubWorkflowOf(parameters) == pathJoin(parameters.runnerTempPath, <<"_github_workflow">>)

commandPrefixOf(image) == IF image = <<"alpine">> THEN <<"/bin/sh">> ELSE <<"/bin/bash">>

(* the three SSH fragments and the SSH environment variable, as written in
   the template *)
SshAuthSockEnv == Frag("--env", <<"SSH_AUTH_SOCK=/ssh-agent">>, <<>>)
SshAgentMount(sshAgent) == Frag("--volume", sshAgent, <<"/ssh-agent">>)
KnownHostsMount ==
    Frag("--volume", <<"/home/runner/.ssh/known_hosts">>, <<"/root/.ssh/known_hosts:ro">>)
PublicKeysMount(dir) == Frag("--volume", dir, <<"/root/.ssh:ro">>)
GitTokenEnv(token) == Frag("--env", <<"GIT_PRIVATE_TOKEN=">>, token)

publicKeysFragment(parameters) ==
    IF Truthy(parameters.sshPublicKeysDirectoryPath)
    THEN PublicKeysMount(parameters.sshPublicKeysDirectoryPath)
    ELSE NoFrag

(* mutant: the known-hosts fallback does not ask for an agent *)
knownHostsFragment_NoAgentCheck(parameters) ==
    IF ~Truthy(parameters.sshPublicKeysDirectoryPath) THEN KnownHostsMount ELSE NoFrag

(* mutant: the known-hosts fallback ignores the public-keys directory *)
knownHostsFragment_Always(parameters) ==
    IF Truthy(parameters.sshAgent) THEN KnownHostsMount ELSE NoFrag

knownHostsFragment(parameters) ==
    IF Truthy(parameters.sshAgent) /\ ~Truthy(parameters.sshPublicKeysDirectoryPath)
    THEN KnownHostsMount
    ELSE NoFrag

getLinuxCommand(image, parameters, overrideCommands, additionalVariables, entrypointBash) ==
    LET githubHome == githubHomeOf(parameters)
        githubWorkflow == githubWorkflowOf(parameters)
        cidfile == containerIdFilePath(parameters)
        commandPrefix == commandPrefixOf(image)
        af == parameters.actionFolder
    IN  << Frag("docker run", <<>>, <<>>),
           Frag("--workdir", parameters.dockerWorkspacePath, <<>>),
           Frag("--cidfile", cidfile, <<>>),
           Frag("--rm", <<>>, <<>>),
           getEnvVarString(parameters, additionalVariables),
           Frag("--env", <<"GITHUB_WORKSPACE=">>, parameters.dockerWorkspacePath),
           Frag("--env", <<"GIT_CONFIG_EXTENSIONS">>, <<>>),
           IF Truthy(parameters.gitPrivateToken)
               THEN GitTokenEnv(parameters.gitPrivateToken) ELSE NoFrag,
           IF Truthy(parameters.sshAgent) THEN SshAuthSockEnv ELSE NoFrag,
           Frag("--volume", githubHome, <<"/root:z">>),
           Frag("--volume", githubWorkflow, <<"/github/workflow:z">>),
           Frag("--volume", parameters.workspace, parameters.dockerWorkspacePath \o <<":z">>),
           Frag("--volume", af \o <<"/default-build-script">>, <<"/UnityBuilderAction:z">>),
           Frag("--volume", af \o <<"/platforms/ubuntu/steps">>, <<"/steps:z">>),
           Frag("--volume", af \o <<"/platforms/ubuntu/entrypoint.sh">>, <<"/entrypoint.sh:z">>),
           Frag("--volume", af \o <<"/unity-config">>, <<"/usr/share/unity3d/config/:z">>),
           Frag("--volume", af \o <<"/BlankProject">>, <<"/BlankProject:z">>),
           Frag("--cpus", parameters.dockerCpuLimit, <<>>),
           Frag("--memory", parameters.dockerMemoryLimit, <<>>),
           IF Truthy(parameters.sshAgent) THEN SshAgentMount(parameters.sshAgent) ELSE NoFrag,
           knownHostsFragment(parameters),
           publicKeysFragment(parameters),
           IF entrypointBash THEN Frag("--entrypoint", commandPrefix, <<>>) ELSE NoFrag,
           Frag("image", image, <<>>),
           IF entrypointBash THEN Frag("-c", <<>>, <<>>) ELSE Frag("-c", commandPrefix, <<>>),
           Frag("command",
                IF overrideCommands # <<>> THEN overrideCommands ELSE <<"/entrypoint.sh">>,
                <<>>) >>

getWindowsCommand(image, parameters) ==
    LET af == parameters.actionFolder
        cws == <<"c:">> \o parameters.dockerWorkspacePath
        vs == <<"C:/Program Files/Microsoft Visual Studio">>
        vs86 == <<"C:/Program Files (x86)/Microsoft Visual Studio">>
        kits == <<"C:/Program Files (x86)/Windows Kits">>
        pdvs == <<"C:/ProgramData/Microsoft/VisualStudio">>
    IN  << Frag("docker run", <<>>, <<>>),
           Frag("--workdir", cws, <<>>),
           Frag("--rm", <<>>, <<>>),
           getEnvVarString(parameters, <<>>),
           Frag("--env", <<"GITHUB_WORKSPACE=">>, cws),
           IF Truthy(parameters.gitPrivateToken)
               THEN GitTokenEnv(parameters.gitPrivateToken) ELSE NoFrag,
           Frag("--volume", parameters.workspace, cws),
           Frag("--volume", <<"c:/regkeys">>, <<"c:/regkeys">>),
           Frag("--volume", vs, vs),
           Frag("--volume", vs86, vs86),
           Frag("--volume", kits, kits),
           Frag("--volume", pdvs, pdvs),
           Frag("--volume", af \o <<"/default-build-script">>, <<"c:/UnityBuilderAction">>),
           Frag("--volume", af \o <<"/platforms/windows">>, <<"c:/steps">>),
           Frag("--volume", af \o <<"/unity-config">>, <<"C:/ProgramData/Unity/config">>),
           Frag("--volume", af \o <<"/BlankProject">>, <<"c:/BlankProject">>),
           Frag("--cpus", parameters.dockerCpuLimit, <<>>),
           Frag("--memory", parameters.dockerMemoryLimit, <<>>),
           Frag("--isolation", parameters.dockerIsolationMode, <<>>),
           Frag("image", image, <<>>),
           Frag("command", <<"powershell c:/steps/entrypoint.ps1">>, <<>>) >>

(* the fragments of a command, and the value of its --cidfile option *)
Frags(cmd) == {cmd[i] : i \in 1..Len(cmd)}
HasCidfile(cmd) == \E f \in Frags(cmd) : f.opt = "--cidfile"
CidfileOf(cmd) == (CHOOSE f \in Frags(cmd) : f.opt = "--cidfile").a

(* ------------------------------------------------------------ String.trim *)
WhiteSpace == {" ", "\n"}

RECURSIVE trimStart(_)
trimStart(s) ==
    IF s # <<>> /\ Head(s) \in WhiteSpace THEN trimStart(Tail(s)) ELSE s

RECURSIVE trimEnd(_)
trimEnd(s) ==
    IF s # <<>> /\ Last(s) \in WhiteSpace THEN trimEnd(Front(s)) ELSE s

trim(s) == trimEnd(trimStart(s))

(* ---------------------------------------------------------- @actions/exec *)
(* exec(commandLine, args, options): the tool's exit code is returned; the
   promise is rejected when the tool cannot be started, and when it exits
   non-zero unless options.ignoreReturnCode is set. *)
Returned(code) == [kind |-> "returned", code |-> code]
Threw(why) == [kind |-> why, code |-> -1]

exec(launched, exitCode, options) ==
    IF ~launched THEN Threw("threw:launch")
    ELSE IF exitCode # 0 /\ ~options.ignoreReturnCode THEN Threw("threw:exitcode")
    ELSE Returned(exitCode)

(* the options object of each exec call; a field left out is falsy *)
cleanupOptions == [silent |-> FALSE, ignoreReturnCode |-> FALSE]
removeOptions == [silent |-> TRUE, ignoreReturnCode |-> FALSE]

(* mutant: the caller's ignoreReturnCode is kept *)
runOptions_KeepCaller(options, silent) ==
    [silent |-> silent, ignoreReturnCode |-> options.ignoreReturnCode]

runOptions(options, silent) == [silent |-> silent, ignoreReturnCode |-> TRUE]

(* Action.supportedPlatforms, and the platforms Docker.run builds a command for *)
supportedPlatforms == {"linux", "win32", "darwin"}
Platforms == supportedPlatforms \cup {"freebsd"}

(* mutant: every platform of Action.supportedPlatforms gets the Linux command *)
runBuildsFor_Supported(p) ==
    IF p = "win32" THEN "windows" ELSE IF p \in supportedPlatforms THEN "linux" ELSE "none"

runBuildsFor(p) ==
    IF p = "linux" THEN "linux" ELSE IF p = "win32" THEN "windows" ELSE "none"

(* ------------------------------------------------------------ the host *)
ExitCodes == {0, 1, 137}

(* Action.runnerContext(): the run context of the lifecycle specification *)
RunnerTemp == <<"/", "t">>
Contexts == { [runnerTemporaryPath |-> RunnerTemp, githubAction |-> <<"x">>] }

(* DockerParameters of a run in context ctx; the fields the lifecycle does
   not depend on are fixed *)
ParametersOf(ctx, sshAgent, sshKeys, token) ==
    [ runnerTemporaryPath |-> ctx.runnerTemporaryPath,
      githubAction |-> ctx.githubAction,
      runnerTempPath |-> ctx.runnerTemporaryPath,
      workspace |-> <<"/ws">>,
      actionFolder |-> <<"/dist">>,
      dockerWorkspacePath |-> <<"/github/workspace">>,
      dockerCpuLimit |-> <<"2">>,
      dockerMemoryLimit |-> <<"4g">>,
      dockerIsolationMode |-> <<"default">>,
      sshAgent |-> sshAgent,
      sshPublicKeysDirectoryPath |-> sshKeys,
      gitPrivateToken |-> token ]

NoFile == <<"\\nofile">>
CidChars == {"a", "\n"}
CidTexts == SeqsUpTo(CidChars, MaxCidLen)
ContainerIds == {trim(t) : t \in CidTexts} \ {<<>>}
CidPaths == {containerIdFilePath(c) : c \in Contexts}

existsSync(fs, path) == path \in DOMAIN fs /\ fs[path] # NoFile
readFileSync(fs, path) == fs[path]

StateOf(cs, id) == IF id \in DOMAIN cs THEN cs[id] ELSE "absent"

VARIABLES
    platform,     \* process.platform
    dockerOk,     \* whether the docker binary can be started
    files,        \* identity files: path -> text, or NoFile
    dirs,         \* the directories created on the host
    containers,   \* container id -> "absent" | "running" | "exited"
    pc,           \* where the call in progress stands; "idle" between calls
    args,         \* the arguments of the call in progress
    cidfile,      \* ensureContainerRemoval's cidfile
    container,    \* ensureContainerRemoval's container
    runCommand,   \* run's runCommand
    calls,        \* what the call in progress has asked of the host so far
    history,      \* one summary per finished call, oldest first
    checked       \* SpecPath: (context, path) of every identity-file check

vars == << platform, dockerOk, files, dirs, containers, pc, args, cidfile,
           container, runCommand, calls, history, checked >>

NoArgs == [name |-> "none"]
Host == [files |-> files, dirs |-> dirs, containers |-> containers]

(* what is kept of a finished call: its arguments, how it ended (kind, and
   code when it returned one), the exit code the tool it ran last produced,
   its calls, and the host as it found it *)
NoOptions == [silent |-> FALSE, ignoreReturnCode |-> FALSE]
Summary(name, ctx, silent, options, res, produced, cs, before) ==
    [ name |-> name, ctx |-> ctx, silent |-> silent, options |-> options,
      kind |-> res.kind, code |-> res.code, produced |-> produced,
      calls |-> cs, before |-> before ]

(* ------------------------------------------- Docker.ensureContainerRemoval *)
Finish(name, ctx, silent, options, res, produced, cs, before) ==
    /\ history' = Append(history,
                         Summary(name, ctx, silent, options, res, produced, cs, before))
    /\ pc' = "idle"
    /\ args' = NoArgs
    /\ cidfile' = <<>>
    /\ container' = <<>>
    /\ runCommand' = <<>>
    /\ calls' = <<>>

DockerExec(id) == [verb |-> "docker exec", target |-> id, silent |-> FALSE]
DockerRm(id) == [verb |-> "docker rm --force --volumes", target |-> id, silent |-> TRUE]
RmSync(path) == [verb |-> "rmSync", target |-> path, silent |-> FALSE]
DockerRun(cmd, options) ==
    [verb |-> "docker run", target |-> IF HasCidfile(cmd) THEN CidfileOf(cmd) ELSE <<>>,
     silent |-> options.silent, ignoreReturnCode |-> options.ignoreReturnCode]

(* mutant: the existence check is skipped when the file is missing too *)
cidfileFound_Always(fs, path) == TRUE

cidfileFound(fs, path) == existsSync(fs, path)

(* lines 24-28: compute the path, return when there is no file, else read
   and trim the id *)
ecrBegin(ctx) ==
    /\ pc = "idle"
    /\ Len(history) < MaxOps
    /\ LET path == containerIdFilePath(ctx)
       IN  IF ~cidfileFound(files, path)
           THEN /\ Finish("ensureContainerRemoval", ctx, FALSE, NoOptions, Returned(0), -1,
                        <<>>, Host)
                /\ UNCHANGED <<platform, dockerOk, files, dirs, containers, checked>>
           ELSE /\ pc' = "cleanup"
                /\ args' = [name |-> "ensureContainerRemoval", ctx |-> ctx, before |-> Host]
                /\ cidfile' = path
                /\ container' = trim(IF existsSync(files, path)
                                     THEN readFileSync(files, path) ELSE <<>>)
                /\ UNCHANGED <<platform, dockerOk, files, dirs, containers, runCommand,
                               calls, history, checked>>

(* what `docker exec <id> /bin/bash -c /cleanup.sh` can exit with: the
   script's own code in a running container, an error otherwise *)
CleanupExitCodes(id) ==
    IF StateOf(containers, id) = "running" THEN ExitCodes ELSE ExitCodes \ {0}

cleanupResult(code) == exec(dockerOk, code, cleanupOptions)

(* lines 29-31 *)
ecrCleanup ==
    /\ pc = "cleanup"
    /\ \E code \in CleanupExitCodes(container) :
         LET res == cleanupResult(code)
             cs == Append(calls, DockerExec(container))
         IN  IF res.kind = "returned"
             THEN /\ pc' = "remove"
                  /\ calls' = cs
                  /\ UNCHANGED <<args, cidfile, container, runCommand, history>>
             ELSE Finish("ensureContainerRemoval", args.ctx, FALSE, NoOptions, res,
                         IF dockerOk THEN code ELSE -1, cs, args.before)
    /\ UNCHANGED <<platform, dockerOk, files, dirs, containers, checked>>

(* line 32: with --force a container that exists is removed; the exit code
   for one that does not exist depends on the docker version *)
ecrRemove ==
    /\ pc = "remove"
    /\ \E code \in {0, 1} :
         LET res == exec(dockerOk, code, removeOptions)
             cs == Append(calls, DockerRm(container))
         IN  /\ containers' =
                   IF dockerOk /\ code = 0 /\ container \in DOMAIN containers
                   THEN [containers EXCEPT ![container] = "absent"]
                   ELSE containers
             /\ IF res.kind = "returned"
                THEN /\ pc' = "unlink"
                     /\ calls' = cs
                     /\ UNCHANGED <<args, cidfile, container, runCommand, history>>
                ELSE Finish("ensureContainerRemoval", args.ctx, FALSE, NoOptions, res,
                            IF dockerOk THEN code ELSE -1, cs, args.before)
    /\ UNCHANGED <<platform, dockerOk, files, dirs, checked>>

(* line 33 *)
ecrUnlink ==
    /\ pc = "unlink"
    /\ files' = [files EXCEPT ![cidfile] = NoFile]
    /\ Finish("ensureContainerRemoval", args.ctx, FALSE, NoOptions, Returned(0), -1,
              Append(calls, RmSync(cidfile)), args.before)
    /\ UNCHANGED <<platform, dockerOk, dirs, containers, checked>>

(* -------------------------------------------------------------- Docker.run *)
Image == <<"unityci/editor">>

(* lines 45-55: the platform switch; the Linux builder creates its two
   directories when they are missing *)
runBuild(ctx, silent, options) ==
    /\ pc = "idle"
    /\ Len(history) < MaxOps
    /\ LET parameters == ParametersOf(ctx, Undefined, Undefined, Undefined)
           builder == runBuildsFor(platform)
       IN  IF builder = "none"
           THEN /\ Finish("run", ctx, silent, options, Threw("threw:platform"), -1,
                        <<>>, Host)
                /\ UNCHANGED dirs
           ELSE /\ pc' = "exec"
                /\ args' = [name |-> "run", ctx |-> ctx, silent |-> silent,
                            options |-> options, before |-> Host]
                /\ runCommand' =
                      IF builder = "linux"
                      THEN getLinuxCommand(Image, parameters, <<>>, <<>>, FALSE)
                      ELSE getWindowsCommand(Image, parameters)
                /\ dirs' =
                      IF builder = "linux"
                      THEN dirs \cup {githubHomeOf(parameters), githubWorkflowOf(parameters)}
                      ELSE dirs
                /\ UNCHANGED <<cidfile, container, calls, history>>
    /\ UNCHANGED <<platform, dockerOk, files, containers, checked>>

(* ids docker may give a new container: not in use, not named by any file *)
FreshIds ==
    {id \in ContainerIds :
        /\ containers[id] = "absent"
        /\ \A p \in DOMAIN files : files[p] = NoFile \/ trim(files[p]) # id}

(* lines 57-60: exec with silent and ignoreReturnCode set.  `docker run
   --cidfile` refuses to start when the file exists; otherwise it writes the
   new container's id to the file, and --rm removes the container on exit. *)
runExec ==
    /\ pc = "exec"
    /\ LET options == runOptions(args.options, args.silent)
           cs == Append(calls, DockerRun(runCommand, options))
           done(code) == Finish("run", args.ctx, args.silent, args.options,
                                exec(dockerOk, code, options), code, cs, args.before)
       IN  IF ~dockerOk
           THEN done(-1) /\ UNCHANGED <<files, containers>>
           ELSE IF ~HasCidfile(runCommand)
           THEN \E code \in ExitCodes : done(code) /\ UNCHANGED <<files, containers>>
           ELSE IF existsSync(files, CidfileOf(runCommand))
           THEN done(125) /\ UNCHANGED <<files, containers>>
           ELSE \E id \in FreshIds, code \in ExitCodes, after \in {"absent", "exited"} :
                  /\ files' = [files EXCEPT ![CidfileOf(runCommand)] = id]
                  /\ containers' = [containers EXCEPT ![id] = after]
                  /\ done(code)
    /\ UNCHANGED <<platform, dockerOk, dirs, checked>>

(* ------------------------------------------------- lifecycle specification *)
ContainerStates == {"absent", "running", "exited"}
NoFiles == [p \in CidPaths |-> NoFile]
NoContainers == [id \in ContainerIds |-> "absent"]

(* the host as a run finds it: no identity file, or the identity file of one
   earlier run, whose container is still running, has exited, or is gone *)
Init ==
    /\ platform \in Platforms
    /\ dockerOk \in BOOLEAN
    /\ \/ files = NoFiles /\ containers = NoContainers
       \/ \E p \in CidPaths, text \in CidTexts, st \in ContainerStates :
            /\ files = [NoFiles EXCEPT ![p] = text]
            /\ containers = [id \in ContainerIds |->
                                IF id = trim(text) THEN st ELSE "absent"]
    /\ dirs = {}
    /\ pc = "idle"
    /\ args = NoArgs
    /\ cidfile = <<>>
    /\ container = <<>>
    /\ runCommand = <<>>
    /\ calls = <<>>
    /\ history = <<>>
    /\ checked = {}

ensureContainerRemoval == \E ctx \in Contexts : ecrBegin(ctx)

run ==
    \E ctx \in Contexts, silent \in BOOLEAN, ignore \in BOOLEAN :
        runBuild(ctx, silent, [silent |-> FALSE, ignoreReturnCode |-> ignore])

Next ==
    \/ ensureContainerRemoval
    \/ ecrCleanup
    \/ ecrRemove
    \/ ecrUnlink
    \/ run
    \/ runExec

Spec == Init /\ [][Next]_vars

(* --------------------------------- command-builder specification (SpecCmd) *)
(* getLinuxCommand and getWindowsCommand applied to every combination of the
   optional parameters: unset (undefined), empty, and set *)
Optional(v) == {Undefined, <<>>, v}

CmdInit ==
    /\ \E image \in {<<"alpine">>, Image},
          sshAgent \in Optional(<<"/agent.sock">>),
          sshKeys \in Optional(<<"/keys">>),
          token \in {Undefined, <<"tok">>},
          overrideCommands \in {<<>>, <<"echo">>},
          entrypointBash \in BOOLEAN :
         args = [ name |-> "command", image |-> image,
                  parameters |-> ParametersOf(CHOOSE c \in Contexts : TRUE,
                                              sshAgent, sshKeys, token),
                  overrideCommands |-> overrideCommands,
                  entrypointBash |-> entrypointBash ]
    /\ platform = "linux"
    /\ dockerOk = TRUE
    /\ files = NoFiles
    /\ containers = NoContainers
    /\ dirs = {}
    /\ pc = "idle"
    /\ cidfile = <<>>
    /\ container = <<>>
    /\ runCommand = <<>>
    /\ calls = <<>>
    /\ history = <<>>
    /\ checked = {}

buildLinux ==
    /\ pc = "idle"
    /\ pc' = "linux command"
    /\ runCommand' = getLinuxCommand(args.image, args.parameters, args.overrideCommands,
                                     <<>>, args.entrypointBash)
    /\ dirs' = dirs \cup {githubHomeOf(args.parameters), githubWorkflowOf(args.parameters)}
    /\ UNCHANGED <<platform, dockerOk, files, containers, args, cidfile, container,
                   calls, history, checked>>

buildWindows ==
    /\ pc = "idle"
    /\ pc' = "windows command"
    /\ runCommand' = getWindowsCommand(args.image, args.parameters)
    /\ UNCHANGED <<platform, dockerOk, files, dirs, containers, args, cidfile,
                   container, calls, history, checked>>

CmdNext ==
    \/ buildLinux
    \/ buildWindows

SpecCmd == CmdInit /\ [][CmdNext]_vars

(* ------------------------------------ identity-file path specification (SpecPath) *)
(* containerIdFilePath applied to a temporary directory and two run
   identifiers, once by the Linux command builder and once per context by
   ensureContainerRemoval *)
PathChars == {"/", ".", "x"}
TmpDirs == SeqsUpTo(PathChars, MaxTmpLen) \ {<<>>}
RunIds == SeqsUpTo(PathChars, MaxIdLen) \ {<<>>}

PathInit ==
    /\ \E tmp \in TmpDirs, id \in RunIds, id2 \in RunIds :
         args = [ name |-> "paths",
                  parameters |->
                      ParametersOf([runnerTemporaryPath |-> tmp, githubAction |-> id],
                                   Undefined, Undefined, Undefined),
                  contexts |-> { [runnerTemporaryPath |-> tmp, githubAction |-> id],
                                 [runnerTemporaryPath |-> tmp, githubAction |-> id2] } ]
    /\ platform = "linux"
    /\ dockerOk = TRUE
    /\ files = <<>>
    /\ containers = NoContainers
    /\ dirs = {}
    /\ pc = "idle"
    /\ cidfile = <<>>
    /\ container = <<>>
    /\ runCommand = <<>>
    /\ calls = <<>>
    /\ history = <<>>
    /\ checked = {}

(* run on Linux, up to the built command *)
pathOfRun ==
    /\ pc = "idle"
    /\ pc' = "linux command"
    /\ runCommand' = getLinuxCommand(Image, args.parameters, <<>>, <<>>, FALSE)
    /\ dirs' = dirs \cup {githubHomeOf(args.parameters), githubWorkflowOf(args.parameters)}
    /\ UNCHANGED <<platform, dockerOk, files, containers, args, cidfile, container,
                   calls, history, checked>>

(* ensureContainerRemoval where no identity file exists: lines 24-27 *)
pathOfRemoval ==
    /\ pc = "linux command"
    /\ \E ctx \in args.contexts :
         LET path == containerIdFilePath(ctx)
         IN  /\ ~cidfileFound(files, path)
             /\ checked' = checked \cup {[ctx |-> ctx, path |-> path]}
    /\ UNCHANGED <<platform, dockerOk, files, dirs, containers, pc, args, cidfile,
                   container, runCommand, calls, history>>

PathNext ==
    \/ pathOfRun
    \/ pathOfRemoval

SpecPath == PathInit /\ [][PathNext]_vars

(* ================================================================ claims *)
ECR == "ensureContainerRemoval"
Finished == DOMAIN history
PathOf(h) == containerIdFilePath(h.ctx)
(* whether the call found an identity file, and the id it then read *)
FileAtStart(h) == existsSync(h.before.files, PathOf(h))
IdAtStart(h) == trim(readFileSync(h.before.files, PathOf(h)))
(* the host as the i-th finished call left it *)
After(i) ==
    IF i < Len(history) THEN history[i + 1].before
    ELSE IF pc = "idle" THEN Host ELSE args.before
Verbs(h) == {h.calls[k].verb : k \in DOMAIN h.calls}

(* C1: once an identity file holding an id is found (and docker can be
   started), the force-remove is issued whatever the cleanup exec's outcome
   was, a non-zero exit code included. *)
C1_ForceRemoveAlwaysIssued ==
    \A i \in Finished :
        LET h == history[i]
        IN  (h.name = ECR /\ FileAtStart(h) /\ IdAtStart(h) # <<>> /\ dockerOk)
                => DockerRm(IdAtStart(h)).verb \in Verbs(h)

(* C2: on Linux, when docker can be started, a finished call of
   ensureContainerRemoval that found the run's identity file, holding the
   id of a container that is running, has exited or is already gone, leaves
   the file deleted. *)
C2_FileReapedAfterCall ==
    \A i \in Finished :
        LET h == history[i]
        IN  (platform = "linux" /\ dockerOk /\ h.name = ECR /\ FileAtStart(h)
                /\ IdAtStart(h) # <<>>)
                => ~existsSync(After(i).files, PathOf(h))

(* C3: when the identity file holds an id (and docker can be started), the
   call makes exactly three calls, in this order and on that id: the cleanup
   exec, the force-remove, the deletion of the identity file. *)
C3_ExactSequence ==
    \A i \in Finished :
        LET h == history[i]
        IN  (h.name = ECR /\ FileAtStart(h) /\ IdAtStart(h) # <<>> /\ dockerOk)
                => h.calls = << DockerExec(IdAtStart(h)), DockerRm(IdAtStart(h)),
                                RmSync(PathOf(h)) >>

(* C4: a call of ensureContainerRemoval that finds no identity file makes no
   call to the container runtime, leaves the host's files, directories and
   containers as they were, and returns without an error. *)
C4_NoFileNoOp ==
    /\ \A i \in Finished :
         LET h == history[i]
         IN  (h.name = ECR /\ ~FileAtStart(h))
                 => /\ h.calls = <<>>
                    /\ h.kind = "returned"
                    /\ After(i) = h.before
    /\ (pc \in {"cleanup", "remove", "unlink"}) => existsSync(args.before.files, cidfile)

C4_Witness ==
    \E i \in Finished :
        /\ history[i].name = ECR
        /\ ~FileAtStart(history[i])
        /\ history[i].kind = "returned"
        /\ ~dockerOk

(* C5: of two calls of ensureContainerRemoval in succession, the first of
   which found the identity file with an id (docker can be started), the
   first returns
   with the file deleted and the second makes no call, returns, and changes
   nothing. *)
C5_Idempotent ==
    \A i \in Finished :
        (i + 1 \in Finished /\ history[i].name = ECR /\ history[i + 1].name = ECR
            /\ history[i].ctx = history[i + 1].ctx /\ FileAtStart(history[i])
            /\ IdAtStart(history[i]) # <<>> /\ dockerOk)
        => /\ history[i].kind = "returned"
           /\ ~FileAtStart(history[i + 1])
           /\ history[i + 1].calls = <<>>
           /\ history[i + 1].kind = "returned"
           /\ After(i + 1) = history[i + 1].before

(* C6: on linux and win32, when docker can be started, run returns the exit
   code docker produced, zero or not, whatever options the caller passed;
   the exec call is made with ignoreReturnCode set and with silent equal to
   the silent argument. *)
C6_ExitCodeVerbatim ==
    \A i \in Finished :
        LET h == history[i]
        IN  (h.name = "run" /\ platform \in {"linux", "win32"} /\ dockerOk)
                => /\ h.kind = "returned"
                   /\ h.code = h.produced
                   /\ Len(h.calls) = 1
                   /\ h.calls[1].verb = "docker run"
                   /\ h.calls[1].ignoreReturnCode
                   /\ h.calls[1].silent = h.silent

C6_Witness ==
    \E i \in Finished :
        /\ history[i].name = "run"
        /\ ~history[i].options.ignoreReturnCode
        /\ history[i].kind = "returned"
        /\ history[i].code = 137

(* C7: on a platform other than linux and win32, run ends with the
   unsupported-platform error and has built no command, created no
   directory and started no process. *)
C7_UnsupportedRejectedFirst ==
    /\ platform \notin {"linux", "win32"} => (pc # "exec" /\ runCommand = <<>> /\ dirs = {})
    /\ \A i \in Finished :
         LET h == history[i]
         IN  (h.name = "run" /\ platform \notin {"linux", "win32"})
                 => /\ h.kind = "threw:platform"
                    /\ h.calls = <<>>
                    /\ After(i) = h.before

C7_Witness ==
    \E i \in Finished :
        /\ history[i].name = "run"
        /\ platform = "darwin"
        /\ history[i].kind = "threw:platform"

(* C8 as stated: the path the command passes as --cidfile and the path
   ensureContainerRemoval checks are both the text
   <temporaryDirectoryPath>/container_<runIdentifier>, and two different run
   identifiers in one temporary directory give two different paths. *)
LiteralPath(ctx) ==
    ctx.runnerTemporaryPath \o <<"/", "container_">> \o ctx.githubAction

C8_LiteralPathInjective ==
    /\ (pc = "linux command" /\ HasCidfile(runCommand))
           => CidfileOf(runCommand) = LiteralPath(args.parameters)
    /\ \A e \in checked : e.path = LiteralPath(e.ctx)
    /\ \A e1, e2 \in checked : e1.ctx # e2.ctx => e1.path # e2.path

(* a path that normalisation leaves alone: not empty, no trailing separator,
   no empty, "." or ".." segment (but for the empty one before a leading /) *)
NoSeparator(t) == \A k \in DOMAIN t : t[k] # "/"
CleanDir(t) ==
    LET segs == Segments(t)
    IN  /\ t # <<>>
        /\ \A k \in DOMAIN segs :
              /\ segs[k] \notin {<<".">>, DotDot}
              /\ segs[k] = <<>> => (k = 1 /\ Len(segs) > 1)

(* C8 as amended: the --cidfile path and the path ensureContainerRemoval
   checks are the same for the same pair; that path is the text
   <temporaryDirectoryPath>/container_<runIdentifier> when the directory is a
   clean path and the identifier holds no separator; and two different
   identifiers without a separator give two different paths. *)
C8_NormalisedPath ==
    /\ pc = "linux command" => HasCidfile(runCommand)
    /\ \A e \in checked :
         /\ (e.ctx.githubAction = args.parameters.githubAction)
                => e.path = CidfileOf(runCommand)
         /\ (CleanDir(e.ctx.runnerTemporaryPath) /\ NoSeparator(e.ctx.githubAction))
                => e.path = LiteralPath(e.ctx)
    /\ \A e1, e2 \in checked :
         (e1.ctx # e2.ctx /\ NoSeparator(e1.ctx.githubAction)
                          /\ NoSeparator(e2.ctx.githubAction))
             => e1.path # e2.path

C8_Witness ==
    \E e1, e2 \in checked :
        /\ e1.ctx # e2.ctx
        /\ NoSeparator(e1.ctx.githubAction) /\ e1.ctx.githubAction # <<>>
        /\ NoSeparator(e2.ctx.githubAction) /\ e2.ctx.githubAction # <<>>
        /\ CleanDir(e1.ctx.runnerTemporaryPath)
        /\ e1.ctx.runnerTemporaryPath = <<"/", "x">>
        /\ e1.path = CidfileOf(runCommand)

(* the SSH-related fragments of a command *)
HasSshAuthSock(cmd) == SshAuthSockEnv \in Frags(cmd)
HasAgentMount(cmd) == \E f \in Frags(cmd) : f.opt = "--volume" /\ f.b = <<"/ssh-agent">>
HasKnownHostsMount(cmd) == KnownHostsMount \in Frags(cmd)
HasPublicKeysMount(cmd) == \E f \in Frags(cmd) : f.opt = "--volume" /\ f.b = <<"/root/.ssh:ro">>
LinuxBuilt == pc = "linux command"
AgentSet == Truthy(args.parameters.sshAgent)
KeysSet == Truthy(args.parameters.sshPublicKeysDirectoryPath)

(* C9 as stated: with sshAgent unset the Linux command holds no
   SSH_AUTH_SOCK variable, no /ssh-agent mount, no known_hosts mount and no
   /root/.ssh mount, whatever the other parameters are. *)
C9_NoSshWithoutAgent ==
    (LinuxBuilt /\ ~AgentSet)
        => /\ ~HasSshAuthSock(runCommand)
           /\ ~HasAgentMount(runCommand)
           /\ ~HasKnownHostsMount(runCommand)
           /\ ~HasPublicKeysMount(runCommand)

(* C9 as amended: with sshAgent unset the Linux command holds no
   SSH_AUTH_SOCK variable, no /ssh-agent mount and no known_hosts mount; it
   holds the /root/.ssh mount exactly when sshPublicKeysDirectoryPath is
   set. *)
C9_NoAgentFragmentsWithoutAgent ==
    (LinuxBuilt /\ ~AgentSet)
        => /\ ~HasSshAuthSock(runCommand)
           /\ ~HasAgentMount(runCommand)
           /\ ~HasKnownHostsMount(runCommand)
           /\ HasPublicKeysMount(runCommand) <=> KeysSet

C9_Witness ==
    /\ LinuxBuilt
    /\ ~AgentSet
    /\ KeysSet
    /\ HasPublicKeysMount(runCommand)

(* C10: in the Linux command, with sshAgent set and no public-keys
   directory the known-hosts mount is there and the public-keys mount is
   not; with both set the public-keys mount is there and the known-hosts
   mount is not; the two mounts never appear together. *)
C10_KnownHostsOrPublicKeys ==
    LinuxBuilt
        => /\ (AgentSet /\ ~KeysSet)
                 => (HasKnownHostsMount(runCommand) /\ ~HasPublicKeysMount(runCommand))
           /\ (AgentSet /\ KeysSet)
                 => (HasPublicKeysMount(runCommand) /\ ~HasKnownHostsMount(runCommand))
           /\ ~(HasKnownHostsMount(runCommand) /\ HasPublicKeysMount(runCommand))

C10_Witness ==
    /\ LinuxBuilt
    /\ AgentSet
    /\ KeysSet
    /\ HasPublicKeysMount(runCommand)
    /\ HasAgentMount(runCommand)

====
